---- MODULE Spec2Model ----
(***************************************************************************)
(* Model of the real-time part of src/app.py: the Socket.IO handlers       *)
(* (connect, disconnect, device_update), the HTTP handlers that write      *)
(* Device / NoiseReading rows and emit Socket.IO events, and the noise     *)
(* classifier.                                                             *)
(*                                                                         *)
(* Every handler is one action.  The database is the pair                  *)
(* (devices, readings) of committed rows; what a handler changes before    *)
(* db.session.commit() lives in the handler's unit of work and reaches the *)
(* database only when the commit succeeds.  The steps a handler takes      *)
(* (commit, rollback, each emit with the connections it is delivered to)   *)
(* are recorded, in order, in last.trace; devices0 / readings0 hold the    *)
(* database as it was when the handler started.                            *)
(*                                                                         *)
(* Noise levels are in tenths of a decibel (70.1 dB is 701).               *)
(* SpecConc splits the two handlers that patch a Device row into their     *)
(* read and commit steps, run by concurrent workers (race).                 *)
(*                                                                         *)
(* Time is a counter (now) that only SpecTime advances; of the timestamps   *)
(* only Device.last_connected is kept.  Ids of readings, device names and   *)
(* types are not modelled.                                                  *)
(***************************************************************************)
EXTENDS Integers, Sequences, FiniteSets, TLC

\* ---------------------------------------------------------------- bounds
NumUsers == 2
NumConns == 2
MaxDevices == 1
MaxReadings == 1
\* handlers running concurrently (SpecConc)
NumWorkers == 2
\* the clock stops here (SpecTime)
MaxClock == 2
\* levels the classifier is exercised on, in tenths of a decibel
MinLevel == 690
MaxLevel == 860

\* ------------------------------------------------------ program constants
\* thresholds of get_noise_category, in decibels
SafeLimit == 70
ModerateLimit == 85
\* data.get('batteryLevel', 100) in connect_bluetooth_device
DefaultBattery == 100
\* current_user when nobody is logged in (current_user.is_authenticated is False)
Anonymous == 0

Users == 1..NumUsers
Conns == 1..NumConns
DeviceIds == 1..MaxDevices
Categories == {"safe", "moderate", "harmful"}

\* ------------------------------------------------------------- classifier
\* Faulty variant: the thresholds taken as exclusive: 70.0 dB is already moderate
get_noise_category_exclusive(noise_level) ==
    IF noise_level < SafeLimit * 10 THEN "safe"
    ELSE IF noise_level < ModerateLimit * 10 THEN "moderate"
    ELSE "harmful"

\* get_noise_category, on a level in tenths of a decibel
get_noise_category(noise_level) ==
    IF noise_level <= SafeLimit * 10 THEN "safe"
    ELSE IF noise_level <= ModerateLimit * 10 THEN "moderate"
    ELSE "harmful"

\* severity order of the categories
rank(category) ==
    CASE category = "safe" -> 0
      [] category = "moderate" -> 1
      [] category = "harmful" -> 2

\* ------------------------------------------------------- request payloads
\* A JSON value: a number, or something float() cannot convert.
Num(n) == [num |-> TRUE, v |-> n]
NotNum == [num |-> FALSE, v |-> 0]

\* float(x): the number, or an exception (ValueError / TypeError)
ToFloat(x) == IF x.num THEN [ok |-> TRUE, v |-> x.v] ELSE [ok |-> FALSE, v |-> 0]

\* A JSON object is a function from the keys that are present to their values
\* ('k' in data is k \in DOMAIN data).  Opt(k, V): key k absent, or present
\* with a value of V.
Opt(k, V) == {<<>>} \cup {(k :> v) : v \in V}
Has(data, k) == k \in DOMAIN data

\* noise levels the clients of the model send (90.0 dB) and a non-number
NoiseInputs == {Num(900), NotNum}
BatteryInputs == {42}

\* device_update {deviceId?, batteryLevel?, noiseLevel?}
DeviceUpdateData ==
    {a @@ b @@ c : a \in Opt("deviceId", DeviceIds),
                   b \in Opt("batteryLevel", BatteryInputs),
                   c \in Opt("noiseLevel", NoiseInputs)}

\* POST /api/devices and POST /api/bluetooth/connect {deviceName?, batteryLevel?}
\* (the name itself is not modelled; deviceType is taken to come with deviceName)
NewDeviceData ==
    {a @@ b : a \in Opt("deviceName", {"earbuds"}),
              b \in Opt("batteryLevel", BatteryInputs)}

\* PATCH /api/devices/<id>/status {isConnected?, batteryLevel?}
StatusData ==
    {a @@ b : a \in Opt("isConnected", BOOLEAN),
              b \in Opt("batteryLevel", BatteryInputs)}

\* POST /api/noise-readings {noiseLevel?, category?}
NoiseReadingData ==
    {a @@ b : a \in Opt("noiseLevel", NoiseInputs),
              b \in Opt("category", Categories)}

VARIABLES
    sess,       \* sess[c]: the identity current_user resolves to on connection c
    live,       \* the connections that are connected
    rooms,      \* rooms[u]: the connections in the Socket.IO room named u
    devices,    \* committed Device rows: id -> [user_id, battery_level,
                \*                             is_connected, last_connected]
    readings,   \* committed NoiseReading rows, in insertion order
    devices0,   \* devices when the last handler started
    readings0,  \* readings when the last handler started
    last,       \* the last handler run: request, response and trace
    probe,      \* inputs and outputs of the classifier (SpecClassify)
    now,        \* datetime.utcnow(), as a counter
    race        \* concurrent handlers (SpecConc): the devices when they were
                \* started, and each worker's request, position and loaded row

vars == <<sess, live, rooms, devices, readings, devices0, readings0, last, probe, now,
          race>>

\* --------------------------------------------------------- trace of a run
Commit == [step |-> "commit", event |-> "", to |-> {}]
CommitFailed == [step |-> "commit_failed", event |-> "", to |-> {}]
Rollback == [step |-> "rollback", event |-> "", to |-> {}]
Emit(event, to) == [step |-> "emit", event |-> event, to |-> to]

\* socketio.emit(..., room=r): the members of the room
ToRoom(r) == rooms[r]
\* socketio.emit(...) with no room: every connected client
ToAll == live
\* emit(...) inside a socket handler with no room: the originating connection
ToSelf(c) == {c}

NoData == <<>>

\* ---------------------------------------------------- concurrent handlers
Workers == 1..NumWorkers
\* a worker with no request
IdleWorker ==
    [pc |-> "idle",
     req |-> [op |-> "", user |-> Anonymous, dev |-> 0, data |-> NoData],
     row |-> <<>>]
NoRace == [base |-> <<>>, work |-> [w \in Workers |-> IdleWorker]]

\* ------------------------------------------------------------ the database
\* Device(...): is_connected defaults to True, last_connected to utcnow()
NewDevice(user_id, battery_level) ==
    [user_id |-> user_id, battery_level |-> battery_level, is_connected |-> TRUE,
     last_connected |-> now]

\* the columns of NoiseReading
NoiseReadingColumns ==
    {"id", "user_id", "noise_level", "category", "timestamp", "location"}

\* NoiseReading(**kwargs): the declarative constructor accepts the mapped
\* columns only and raises TypeError for any other keyword.
NewNoiseReading(kwargs) ==
    IF DOMAIN kwargs \subseteq NoiseReadingColumns
    THEN [ok |-> TRUE,
          row |-> [user_id |-> kwargs.user_id, noise_level |-> kwargs.noise_level,
                   category |-> kwargs.category]]
    ELSE [ok |-> FALSE, row |-> <<>>]

\* Device.query.filter_by(id=device_id, user_id=user).first(): found or not
OwnedDevice(device_id, user) ==
    /\ device_id \in 1..Len(devices)
    /\ devices[device_id].user_id = user

\* db.session.commit() of a unit of work holding the device rows as changed
\* and the rows added: all of it reaches the database, or (dbOk false: the
\* commit raises) none of it.
session_commit(dbOk, devs, rds) ==
    IF dbOk THEN [ok |-> TRUE, devices |-> devs, readings |-> rds]
    ELSE [ok |-> FALSE, devices |-> devices, readings |-> readings]

\* Faulty variant: the event is emitted before the commit is attempted
emit_then_commit(ok, e) == IF ok THEN <<e, Commit>> ELSE <<e, CommitFailed>>

\* db.session.commit() followed by the emit of the handler's event: the steps
\* taken when the commit succeeds, and when it raises
commit_then_emit(ok, e) == IF ok THEN <<Commit, e>> ELSE <<CommitFailed>>

\* db.session.rollback(): the unit of work (devs, rds) is discarded
session_rollback(devs, rds) == [devices |-> devices, readings |-> readings]

\* the result of a handler: response, trace and the database it leaves
Result(status, trace, db) ==
    [status |-> status, trace |-> trace, devices |-> db.devices, readings |-> db.readings]
Untouched == [devices |-> devices, readings |-> readings]

Init ==
    /\ sess = [c \in Conns |-> Anonymous]
    /\ live = {}
    /\ rooms = [u \in Users |-> {}]
    /\ devices = <<>>
    /\ readings = <<>>
    /\ devices0 = <<>>
    /\ readings0 = <<>>
    /\ last = [op |-> "init", user |-> Anonymous, conn |-> 0, dev |-> 0,
               data |-> NoData, status |-> "", trace |-> <<>>, at |-> 0]
    /\ probe = [a |-> 0, b |-> 0, ca |-> "", cb |-> ""]
    /\ now = 0
    /\ race = NoRace

\* What every handler leaves behind: the database before and after, and the run.
Done(op, user, conn, dev, data, r) ==
    /\ Len(r.devices) <= MaxDevices
    /\ Len(r.readings) <= MaxReadings
    /\ devices0' = devices
    /\ readings0' = readings
    /\ devices' = r.devices
    /\ readings' = r.readings
    /\ last' = [op |-> op, user |-> user, conn |-> conn, dev |-> dev,
                data |-> data, status |-> r.status, trace |-> r.trace, at |-> now]
    /\ UNCHANGED <<probe, now, race>>

\* ------------------------------------------------------- socket: connect
\* A client whose login session resolves to u opens connection c.
handle_connect(c, u) ==
    /\ c \notin live
    /\ IF u # Anonymous
       THEN /\ sess' = [sess EXCEPT ![c] = u]
            /\ live' = live \cup {c}
            /\ rooms' = [rooms EXCEPT ![u] = @ \cup {c}]
            /\ Done("connect", u, c, 0, NoData,
                    Result("accepted", <<Emit("connected", ToSelf(c))>>, Untouched))
       ELSE /\ UNCHANGED <<sess, live, rooms>>
            /\ Done("connect", u, c, 0, NoData, Result("refused", <<>>, Untouched))

\* ---------------------------------------------------- socket: disconnect
\* Faulty variant: the handler does not call leave_room
handle_disconnect_no_leave(c) ==
    /\ c \in live
    /\ live' = live \ {c}
    /\ sess' = [sess EXCEPT ![c] = Anonymous]
    /\ UNCHANGED rooms
    /\ Done("disconnect", sess[c], c, 0, NoData, Result("closed", <<>>, Untouched))

handle_disconnect(c) ==
    /\ c \in live
    /\ live' = live \ {c}
    /\ sess' = [sess EXCEPT ![c] = Anonymous]
    /\ rooms' = IF sess[c] # Anonymous
                THEN [rooms EXCEPT ![sess[c]] = @ \ {c}]
                ELSE rooms
    /\ Done("disconnect", sess[c], c, 0, NoData, Result("closed", <<>>, Untouched))

\* -------------------------------------------------- socket: device_update
\* Faulty variant: the except branch reports the error but does not roll back: the
\* changed rows stay in the session and reach the database with its next flush
device_update_except_no_rollback(c, pre, devs, rds) ==
    Result("error", pre \o <<Emit("error", ToSelf(c))>>,
           [devices |-> devs, readings |-> rds])

\* except Exception: db.session.rollback(); emit('error', ...) to the sender
device_update_except(c, pre, devs, rds) ==
    Result("error", pre \o <<Rollback, Emit("error", ToSelf(c))>>,
           session_rollback(devs, rds))

\* the try block from the device lookup on, for a device owned by u
device_update_try(c, u, data, dbOk) ==
    LET d == data["deviceId"]
        devs == IF Has(data, "batteryLevel")
                THEN [devices EXCEPT ![d].battery_level = data["batteryLevel"]]
                ELSE devices
        lvl == IF Has(data, "noiseLevel") THEN ToFloat(data["noiseLevel"])
               ELSE [ok |-> TRUE, v |-> 0]
        new == IF Has(data, "noiseLevel") /\ lvl.ok
               THEN NewNoiseReading([user_id |-> u, device_id |-> d,
                                     noise_level |-> lvl.v,
                                     category |-> get_noise_category(lvl.v)])
               ELSE [ok |-> lvl.ok, row |-> <<>>]
        rds == IF Has(data, "noiseLevel") /\ new.ok
               THEN Append(readings, new.row) ELSE readings
        done == session_commit(dbOk, devs, rds)
        steps == commit_then_emit(done.ok, Emit("device_status", ToRoom(u)))
    IN  IF ~new.ok THEN device_update_except(c, <<>>, devs, readings)
        ELSE IF ~done.ok THEN device_update_except(c, steps, devs, rds)
        ELSE Result("ok", steps, done)

\* whether the try block reaches db.session.commit()
DeviceUpdateCommits(c, data) ==
    /\ sess[c] # Anonymous
    /\ Has(data, "deviceId")
    /\ OwnedDevice(data["deviceId"], sess[c])
    /\ device_update_try(c, sess[c], data, TRUE).status = "ok"

\* Faulty variant: no is_authenticated check: for the anonymous user the lookup's
\* current_user.id raises inside the try block
handle_device_update_no_auth(c, data, dbOk) ==
    LET u == sess[c] IN
    /\ dbOk \/ DeviceUpdateCommits(c, data)
    /\ Done("device_update", u, c, 0, data,
            IF ~Has(data, "deviceId") THEN Result("dropped", <<>>, Untouched)
            ELSE IF u = Anonymous THEN device_update_except(c, <<>>, devices, readings)
            ELSE IF ~OwnedDevice(data["deviceId"], u)
                 THEN Result("dropped", <<>>, Untouched)
            ELSE device_update_try(c, u, data, dbOk))
    /\ UNCHANGED <<sess, live, rooms>>

\* current_user is resolved anew for every event: on a connection with no
\* bound identity (refused, or closed) it is the anonymous user.  dbOk is
\* drawn only on the path that reaches the commit.
handle_device_update(c, data, dbOk) ==
    LET u == sess[c] IN
    /\ dbOk \/ DeviceUpdateCommits(c, data)
    /\ Done("device_update", u, c, 0, data,
            IF u = Anonymous THEN Result("dropped", <<>>, Untouched)
            ELSE IF ~Has(data, "deviceId") THEN Result("dropped", <<>>, Untouched)
            ELSE IF ~OwnedDevice(data["deviceId"], u)
                 THEN Result("dropped", <<>>, Untouched)
            ELSE device_update_try(c, u, data, dbOk))
    /\ UNCHANGED <<sess, live, rooms>>

\* ------------------------------------------------------------------ HTTP
\* An HTTP handler changes no connection state.  A request that is not logged
\* in is taken with an empty body: login_required_api answers before the body
\* is read.
Http(op, u, dev, data, r) ==
    /\ Done(op, u, 0, dev, data, r)
    /\ UNCHANGED <<sess, live, rooms>>

\* login_required_api: 401 unless current_user.is_authenticated
Unauthorized == Result("401", <<>>, Untouched)

\* an exception that leaves a handler with no try block: the 500 handler
\* rolls the session back
internal_error(pre, devs, rds) ==
    Result("500", pre \o <<Rollback>>, session_rollback(devs, rds))

\* POST /api/bluetooth/connect
connect_bluetooth_device(u, data, dbOk) ==
    LET devs == Append(devices,
                       NewDevice(u, IF Has(data, "batteryLevel")
                                    THEN data["batteryLevel"] ELSE DefaultBattery))
        done == session_commit(dbOk, devs, readings)
        steps == commit_then_emit(done.ok, Emit("device_connected", ToRoom(u)))
    IN  /\ dbOk \/ (u # Anonymous /\ Has(data, "deviceName"))
        /\ u = Anonymous => data = NoData
        /\ Http("bluetooth_connect", u, 0, data,
                IF u = Anonymous THEN Unauthorized
                ELSE IF ~Has(data, "deviceName") THEN Result("400", <<>>, Untouched)
                ELSE IF ~done.ok
                     THEN Result("500", steps \o <<Rollback>>,
                                 session_rollback(devs, readings))
                ELSE Result("200", steps, done))

\* POST /api/bluetooth/disconnect/<device_id>
disconnect_bluetooth_device(u, d, dbOk) ==
    LET devs == [devices EXCEPT ![d].is_connected = FALSE,
                                ![d].last_connected = now]
        done == session_commit(dbOk, devs, readings)
        steps == commit_then_emit(done.ok, Emit("device_disconnected", ToRoom(u)))
    IN  /\ dbOk \/ (u # Anonymous /\ OwnedDevice(d, u))
        /\ Http("bluetooth_disconnect", u, d, NoData,
                IF u = Anonymous THEN Unauthorized
                ELSE IF ~OwnedDevice(d, u) THEN Result("404", <<>>, Untouched)
                ELSE IF ~done.ok
                     THEN Result("500", steps \o <<Rollback>>,
                                 session_rollback(devs, readings))
                ELSE Result("200", steps, done))

\* Faulty variant: the reading is emitted to the room of the user who posted it
noise_reading_event_room(u) == Emit("noise_reading", ToRoom(u))

\* socketio.emit('noise_reading', {...}) of create_noise_reading, made by u:
\* no room is given
noise_reading_event(u) == Emit("noise_reading", ToAll)

\* POST /api/noise-readings
create_noise_reading(u, data, dbOk) ==
    LET complete == Has(data, "noiseLevel") /\ Has(data, "category")
        lvl == IF complete THEN ToFloat(data["noiseLevel"]) ELSE [ok |-> FALSE, v |-> 0]
        new == IF lvl.ok
               THEN NewNoiseReading([user_id |-> u, noise_level |-> lvl.v,
                                     category |-> data["category"],
                                     location |-> "Real-time monitoring"])
               ELSE [ok |-> FALSE, row |-> <<>>]
        rds == IF new.ok THEN Append(readings, new.row) ELSE readings
        done == session_commit(dbOk, devices, rds)
        steps == commit_then_emit(done.ok, noise_reading_event(u))
    IN  /\ dbOk \/ (u # Anonymous /\ new.ok)
        /\ u = Anonymous => data = NoData
        /\ Http("create_noise_reading", u, 0, data,
                IF u = Anonymous THEN Unauthorized
                ELSE IF ~new.ok THEN internal_error(<<>>, devices, readings)
                ELSE IF ~done.ok THEN internal_error(steps, devices, rds)
                ELSE Result("200", steps, done))

\* POST /api/devices
create_device(u, data, dbOk) ==
    LET complete == Has(data, "deviceName") /\ Has(data, "batteryLevel")
        devs == IF complete THEN Append(devices, NewDevice(u, data["batteryLevel"]))
                ELSE devices
        done == session_commit(dbOk, devs, readings)
        steps == commit_then_emit(done.ok, Emit("device_status", ToAll))
    IN  /\ dbOk \/ (u # Anonymous /\ complete)
        /\ u = Anonymous => data = NoData
        /\ Http("create_device", u, 0, data,
                IF u = Anonymous THEN Unauthorized
                ELSE IF ~complete THEN internal_error(<<>>, devices, readings)
                ELSE IF ~done.ok THEN internal_error(steps, devs, readings)
                ELSE Result("200", steps, done))

\* PATCH /api/devices/<device_id>/status
update_device_status(u, d, data, dbOk) ==
    LET conn == IF Has(data, "isConnected") THEN data["isConnected"]
                ELSE devices[d].is_connected
        devs1 == [devices EXCEPT ![d].is_connected = conn]
        devs == IF Has(data, "batteryLevel")
                THEN [devs1 EXCEPT ![d].battery_level = data["batteryLevel"]]
                ELSE devs1
        done == session_commit(dbOk, devs, readings)
        steps == commit_then_emit(done.ok, Emit("device_status", ToAll))
    IN  /\ dbOk \/ (u # Anonymous /\ OwnedDevice(d, u))
        /\ u = Anonymous => data = NoData
        /\ Http("update_device_status", u, d, data,
                IF u = Anonymous THEN Unauthorized
                ELSE IF ~OwnedDevice(d, u) THEN Result("404", <<>>, Untouched)
                ELSE IF ~done.ok THEN internal_error(steps, devs, readings)
                ELSE Result("200", steps, done))

Next ==
    \/ \E c \in Conns, u \in Users \cup {Anonymous} : handle_connect(c, u)
    \/ \E c \in Conns : handle_disconnect(c)
    \/ \E c \in Conns, data \in DeviceUpdateData, dbOk \in BOOLEAN :
          handle_device_update(c, data, dbOk)
    \/ \E u \in Users \cup {Anonymous}, data \in NewDeviceData, dbOk \in BOOLEAN :
          connect_bluetooth_device(u, data, dbOk)
    \/ \E u \in Users \cup {Anonymous}, d \in DeviceIds, dbOk \in BOOLEAN :
          disconnect_bluetooth_device(u, d, dbOk)
    \/ \E u \in Users \cup {Anonymous}, data \in NoiseReadingData, dbOk \in BOOLEAN :
          create_noise_reading(u, data, dbOk)
    \/ \E u \in Users \cup {Anonymous}, data \in NewDeviceData, dbOk \in BOOLEAN :
          create_device(u, data, dbOk)
    \/ \E u \in Users \cup {Anonymous}, d \in DeviceIds, data \in StatusData,
          dbOk \in BOOLEAN :
          update_device_status(u, d, data, dbOk)

Spec == Init /\ [][Next]_vars

\* ------------------------------------------------- the classifier alone
Levels == MinLevel..MaxLevel

InitClassify ==
    /\ sess = [c \in Conns |-> Anonymous]
    /\ live = {}
    /\ rooms = [u \in Users |-> {}]
    /\ devices = <<>>
    /\ readings = <<>>
    /\ devices0 = <<>>
    /\ readings0 = <<>>
    /\ last = [op |-> "init", user |-> Anonymous, conn |-> 0, dev |-> 0,
               data |-> NoData, status |-> "", trace |-> <<>>, at |-> 0]
    /\ now = 0
    /\ race = NoRace
    /\ probe \in [a : Levels, b : Levels, ca : {""}, cb : {""}]

\* get_noise_category applied to the two levels drawn
Classify ==
    /\ probe.ca = ""
    /\ probe' = [probe EXCEPT !.ca = get_noise_category(probe.a),
                              !.cb = get_noise_category(probe.b)]
    /\ UNCHANGED <<sess, live, rooms, devices, readings, devices0, readings0, last, now,
                   race>>

NextClassify == Classify

SpecClassify == InitClassify /\ [][NextClassify]_vars

\* ------------------------------------------- the device handlers in time
\* Time passes between two handlers.
Tick ==
    /\ now < MaxClock
    /\ now' = now + 1
    /\ UNCHANGED <<sess, live, rooms, devices, readings, devices0, readings0, last, probe,
                   race>>

\* The handlers that create or change Device rows, with time passing.
NextTime ==
    \/ Tick
    \/ \E c \in Conns, u \in Users \cup {Anonymous} : handle_connect(c, u)
    \/ \E c \in Conns, data \in DeviceUpdateData, dbOk \in BOOLEAN :
          handle_device_update(c, data, dbOk)
    \/ \E u \in Users \cup {Anonymous}, data \in NewDeviceData, dbOk \in BOOLEAN :
          connect_bluetooth_device(u, data, dbOk)
    \/ \E u \in Users \cup {Anonymous}, d \in DeviceIds, dbOk \in BOOLEAN :
          disconnect_bluetooth_device(u, d, dbOk)
    \/ \E u \in Users \cup {Anonymous}, data \in NewDeviceData, dbOk \in BOOLEAN :
          create_device(u, data, dbOk)
    \/ \E u \in Users \cup {Anonymous}, d \in DeviceIds, data \in StatusData,
          dbOk \in BOOLEAN :
          update_device_status(u, d, data, dbOk)

SpecTime == Init /\ [][NextTime]_vars

\* ------------------------------------- patches of one device, step by step
\* Each handler runs in a database session of its own: it loads the Device
\* row, assigns attributes of the loaded object, and commits.  No lock, no
\* version column and no SELECT ... FOR UPDATE is used.
ConcBatteryInputs == {15, 42}

\* the patches a worker may run on device d as user u: a status PATCH, or a
\* device_update without noiseLevel
PatchRequests(u, d) ==
    {[op |-> "update_device_status", user |-> u, dev |-> d, data |-> a @@ b] :
        a \in Opt("isConnected", BOOLEAN), b \in Opt("batteryLevel", ConcBatteryInputs)}
    \cup
    {[op |-> "device_update", user |-> u, dev |-> d, data |-> ("deviceId" :> d) @@ b] :
        b \in Opt("batteryLevel", ConcBatteryInputs)}

\* the loaded row after the handler's assignments
\* (update_device_status assigns is_connected always, battery_level if given;
\* handle_device_update assigns battery_level if given)
assigned(req, row) ==
    LET conn == IF req.op = "update_device_status" /\ Has(req.data, "isConnected")
                THEN req.data["isConnected"] ELSE row.is_connected
        batt == IF Has(req.data, "batteryLevel")
                THEN req.data["batteryLevel"] ELSE row.battery_level
    IN  [row EXCEPT !.is_connected = conn, !.battery_level = batt]

\* the UPDATE that db.session.commit() flushes: it sets the columns whose
\* value differs from the loaded one, on the row as it is in the database now
flush(loaded, new, current) ==
    [current EXCEPT
        !.is_connected = IF new.is_connected # loaded.is_connected
                         THEN new.is_connected ELSE @,
        !.battery_level = IF new.battery_level # loaded.battery_level
                          THEN new.battery_level ELSE @]

\* Requests for one device of their sender arrive and are handled concurrently.
StartRace(reqs) ==
    /\ \A w \in Workers : race.work[w].pc \in {"idle", "done"}
    /\ \A w \in Workers : OwnedDevice(reqs[w].dev, reqs[w].user)
    /\ race' = [base |-> devices,
                work |-> [w \in Workers |-> [pc |-> "start", req |-> reqs[w],
                                             row |-> <<>>]]]
    /\ UNCHANGED <<sess, live, rooms, devices, readings, devices0, readings0, last, probe,
                   now>>

\* Device.query.filter_by(id=device_id, user_id=current_user.id).first()
read_device(w) ==
    LET me == race.work[w] IN
    /\ me.pc = "start"
    /\ race' = IF OwnedDevice(me.req.dev, me.req.user)
               THEN [race EXCEPT !.work[w].pc = "loaded",
                                 !.work[w].row = devices[me.req.dev]]
               ELSE [race EXCEPT !.work[w].pc = "done"]
    /\ UNCHANGED <<sess, live, rooms, devices, readings, devices0, readings0, last, probe,
                   now>>

\* the assignments and db.session.commit()
commit_device(w) ==
    LET me == race.work[w]
        d == me.req.dev
    IN  /\ me.pc = "loaded"
        /\ devices' = [devices EXCEPT
                           ![d] = flush(me.row, assigned(me.req, me.row), devices[d])]
        /\ race' = [race EXCEPT !.work[w].pc = "done"]
        /\ UNCHANGED <<sess, live, rooms, readings, devices0, readings0, last, probe, now>>

\* Devices come into being through create_device (by logged-in users, the
\* commit succeeding); afterwards their patches race.
NextConc ==
    \/ \E u \in Users, data \in NewDeviceData : create_device(u, data, TRUE)
    \/ \E u \in Users, d \in DeviceIds :
          \E reqs \in [Workers -> PatchRequests(u, d)] : StartRace(reqs)
    \/ \E w \in Workers : read_device(w)
    \/ \E w \in Workers : commit_device(w)

SpecConc == Init /\ [][NextConc]_vars

\* ------------------------------------------------------------ vocabulary
Steps == 1..Len(last.trace)
DeviceEvents == {"device_status", "device_connected", "device_disconnected"}
IsEmit(i) == last.trace[i].step = "emit"
IsDeviceEmit(i) == IsEmit(i) /\ last.trace[i].event \in DeviceEvents
StoreFailed == \E i \in Steps : last.trace[i].step = "commit_failed"
DbUnchanged == devices = devices0 /\ readings = readings0
\* the device was owned by u when the last handler started
Owned0(d, u) == d \in 1..Len(devices0) /\ devices0[d].user_id = u
\* the connections bound to identity u
BoundTo(u) == {c \in Conns : sess[c] = u}

\* ------------------------------------------------------------------ claims

\* C1: room isolation.  Every device_status, device_connected and
\* device_disconnected event caused by a mutation of identity A is delivered
\* only to connections bound to A.
C1_RoomIsolation ==
    \A i \in Steps : IsDeviceEmit(i) => last.trace[i].to \subseteq BoundTo(last.user)

\* C2: every persisted NoiseReading row has the category the classifier gives
\* its own noise level, whichever path created it.
C2_CategoryDerived ==
    \A i \in 1..Len(readings) :
        readings[i].category = get_noise_category(readings[i].noise_level)

\* C3: end-to-end ingest.  A device_update {deviceId: D, noiseLevel: L} from a
\* connection bound to U, with D owned by U, L a number and no store failure,
\* ends with a new NoiseReading row of U with level L and category
\* classifier(L) (harmful for 90.0 dB), followed by device_status to room(U).
C3_IngestEndToEnd ==
    ( /\ last.op = "device_update"
      /\ last.user # Anonymous
      /\ Has(last.data, "deviceId")
      /\ Owned0(last.data["deviceId"], last.user)
      /\ Has(last.data, "noiseLevel")
      /\ last.data["noiseLevel"].num
      /\ ~StoreFailed )
    => /\ Len(readings) = Len(readings0) + 1
       /\ readings[Len(readings)].user_id = last.user
       /\ readings[Len(readings)].noise_level = last.data["noiseLevel"].v
       /\ readings[Len(readings)].category
             = get_noise_category(last.data["noiseLevel"].v)
       /\ last.data["noiseLevel"].v = 900 => readings[Len(readings)].category = "harmful"
       /\ Len(last.trace) > 0
       /\ last.trace[Len(last.trace)] = Emit("device_status", rooms[last.user])

\* C4: ingest atomicity.  When handling a device_update fails (an exception up
\* to and including the commit), the database is exactly what it was before
\* the message: no new NoiseReading row, no Device field changed.
C4_IngestAtomic ==
    (last.op = "device_update" /\ last.status = "error") => DbUnchanged

\* C4 witness: the commit of a battery patch that would have changed the
\* device failed.
C4_Witness ==
    /\ last.op = "device_update"
    /\ last.status = "error"
    /\ StoreFailed
    /\ Has(last.data, "batteryLevel")
    /\ devices0[last.data["deviceId"]].battery_level # last.data["batteryLevel"]

\* C5: leave on disconnect.  Rooms hold live connections only, a connection
\* whose disconnect was handled is in no room, and no emit targets a
\* connection that is not live.
C5_LeaveOnDisconnect ==
    /\ \A u \in Users : rooms[u] \subseteq live
    /\ last.op = "disconnect" => \A u \in Users : last.conn \notin rooms[u]
    /\ \A i \in Steps : IsEmit(i) => last.trace[i].to \subseteq live

\* C5 witness: a connection left a room in which another connection remains.
C5_Witness ==
    /\ last.op = "disconnect"
    /\ last.user # Anonymous
    /\ rooms[last.user] # {}

\* C6: authentication gate.  A connect without an authenticated identity is
\* refused, joins no room and gets no ack; a device_update on a connection
\* with no bound identity changes no row and emits nothing.
C6_AuthenticationGate ==
    /\ (last.op = "connect" /\ last.user = Anonymous)
          => /\ last.status = "refused"
             /\ last.conn \notin live
             /\ \A u \in Users : last.conn \notin rooms[u]
             /\ last.trace = <<>>
    /\ (last.op = "device_update" /\ last.user = Anonymous)
          => /\ DbUnchanged
             /\ last.trace = <<>>

\* C6 witness: an unbound connection sent a battery patch naming an existing
\* device, which would have changed it.
C6_Witness ==
    /\ last.op = "device_update"
    /\ last.user = Anonymous
    /\ Has(last.data, "deviceId")
    /\ Has(last.data, "batteryLevel")
    /\ last.data["deviceId"] \in 1..Len(devices)
    /\ devices[last.data["deviceId"]].battery_level # last.data["batteryLevel"]

\* C7: the classifier gives safe up to 70.0 dB, moderate above 70.0 up to
\* 85.0 dB, harmful above 85.0 dB, and severity never decreases as the level
\* increases.
C7_Classifier ==
    probe.ca # "" =>
        /\ probe.a <= 700 => probe.ca = "safe"
        /\ (probe.a > 700 /\ probe.a <= 850) => probe.ca = "moderate"
        /\ probe.a > 850 => probe.ca = "harmful"
        /\ probe.a <= probe.b => rank(probe.ca) <= rank(probe.cb)

\* C7 witness: 70.0 dB classified safe next to 70.1 dB classified moderate.
C7_Witness ==
    /\ probe.a = 700 /\ probe.ca = "safe"
    /\ probe.b = 701 /\ probe.cb = "moderate"

\* C8: NotFound.  A device_update, status PATCH or bluetooth disconnect naming
\* a device the caller does not own changes no row, emits no broadcast and is
\* reported as an error to the caller.
C8_NotFoundReported ==
    /\ ( /\ last.op \in {"update_device_status", "bluetooth_disconnect"}
         /\ last.user # Anonymous
         /\ ~Owned0(last.dev, last.user) )
       => /\ DbUnchanged
          /\ last.trace = <<>>
          /\ last.status = "404"
    /\ ( /\ last.op = "device_update"
         /\ last.user # Anonymous
         /\ Has(last.data, "deviceId")
         /\ ~Owned0(last.data["deviceId"], last.user) )
       => /\ DbUnchanged
          /\ \A i \in Steps : IsEmit(i) => last.trace[i].to = {last.conn}
          /\ \E i \in Steps : last.trace[i] = Emit("error", {last.conn})

C10_CommitBeforeEmit ==
    \A i \in Steps : IsDeviceEmit(i) =>
        /\ \E j \in 1..(i - 1) : last.trace[j].step = "commit"
        /\ \A j \in Steps : last.trace[j].step \notin {"commit_failed", "rollback"}
        /\ last.status \in {"ok", "200"}

\* C10 witness: a status PATCH that changed the device was committed and its
\* device_status reached a connection.
C10_Witness ==
    /\ last.op = "update_device_status"
    /\ devices # devices0
    /\ last.trace[1].step = "commit"
    /\ IsDeviceEmit(2)
    /\ last.trace[2].to # {}

\* C11: last-connected refresh.  Every successful patch of a device that
\* changes its battery level or its connectivity flag (device_update, status
\* PATCH, bluetooth disconnect) sets the device's last_connected to the time
\* of the patch, so that it is later than before whenever time has passed.
C11_LastConnectedRefresh ==
    LET patched == \/ last.op = "device_update" /\ last.status = "ok"
                   \/ /\ last.op \in {"update_device_status", "bluetooth_disconnect"}
                      /\ last.status = "200"
        d == IF last.op = "device_update" THEN last.data["deviceId"] ELSE last.dev
    IN  ( /\ patched
          /\ \/ devices[d].battery_level # devices0[d].battery_level
             \/ devices[d].is_connected # devices0[d].is_connected )
        => /\ devices[d].last_connected = last.at
           /\ devices0[d].last_connected < last.at
                 => devices[d].last_connected > devices0[d].last_connected

\* one request handled alone on the devices db: read, assign and commit with
\* nothing in between
Alone(db, req) ==
    [db EXCEPT ![req.dev] = flush(@, assigned(req, @), @)]

\* the requests of the workers handled one after the other, in the order o
RECURSIVE InOrder(_, _)
InOrder(db, o) ==
    IF o = <<>> THEN db
    ELSE InOrder(Alone(db, race.work[Head(o)].req), Tail(o))

Orders == {o \in [1..NumWorkers -> Workers] : \A i, j \in 1..NumWorkers :
                                                  o[i] = o[j] => i = j}

\* C12: same-device serialization.  When concurrent mutations of one device
\* (status PATCHes, device_updates) have all committed, the device rows are
\* what handling the mutations one after the other, in some order, gives.
C12_SameDeviceSerialized ==
    (\A w \in Workers : race.work[w].pc = "done")
        => \E o \in Orders : devices = InOrder(race.base, o)
====
